---- MODULE Spec2Model ----
(***************************************************************************)
(* Smart Shopper ZA crawl orchestration: the job scheduler (scheduler.py), *)
(* the retrying batch crawl (base_crawler.py) and the product store        *)
(* (database.py).  Three specifications share the module's variables:      *)
(*   Spec       the scheduler: API calls, checker threads, worker threads  *)
(*   CrawlSpec  the crawler objects of one source running crawl_products   *)
(*   StoreSpec  the product table and its full-text index                  *)
(* Each specification holds the variables of the other two at their        *)
(* initial values.                                                         *)
(***************************************************************************)
EXTENDS Integers, Sequences, FiniteSets, TLC

(* ------------------------------------------------------------------ *)
(* Bounds of the model                                                 *)
(* ------------------------------------------------------------------ *)
\* entries the (unbounded) queue.Queue may hold in the model
MaxQueue == 2
\* successful start() calls, i.e. worker/checker thread pairs created
MaxStarts == 2
\* the clock (datetime.now()) runs from 0 to MaxTime
MaxTime == 1
\* interval_hours given to add_job ranges over 1..MaxInterval
MaxInterval == 1
\* URLs the sitemap of a crawl run may yield
MaxUrls == 2
\* records in one bulk_upsert_products call
MaxBatch == 2
\* the store's clock (time.time(), in seconds) runs from 0 to MaxClock
MaxClock == 1
\* fallback identities (millisecond timestamps) the store may hand out
MaxMs == 2
\* writing store calls (upsert, bulk upsert, delete, clear) in one run of the store
MaxOps == 2
\* statements that fail in one store call
MaxFaults == 1
\* crawler objects made for one source, one after the other
MaxRuns == 2
\* store calls in one run of the store, find_products included
MaxCalls == 3
\* limit given to find_products ranges over 1..MaxLimit
MaxLimit == 2

(* ------------------------------------------------------------------ *)
(* Source registry (retailers_config.py)                               *)
(* ------------------------------------------------------------------ *)
\* Two of the configured retailers: one whose crawler module exists in the
\* repository and one whose module is "To be implemented".
RetailerNames == {"PriceCheck", "Shoprite"}

\* a name that no entry of RETAILERS carries
UnsupportedNames == {"Unknown"}

\* get_retailer_config(name) finds an entry; otherwise it raises ValueError
IsSupported(name) == name \in RetailerNames

\* importlib.import_module(module) / getattr(module, class) succeed
HasCrawlerModule(name) == name \in {"PriceCheck", "Checkers"}

(* ------------------------------------------------------------------ *)
(* Scheduler state                                                     *)
(* ------------------------------------------------------------------ *)
VARIABLES
  now,           \* datetime.now(), in interval units
  schedRunning,  \* CrawlScheduler.running
  job,           \* the live CrawlJob object of each retailer name
  jobs,          \* CrawlScheduler.jobs: its keys, in dict order
  job_queue,     \* CrawlScheduler.job_queue, the jobs by name; None is the sentinel
  nStarts,       \* thread pairs created; worker_thread is worker nStarts
  wpc,           \* position of each worker thread in _worker_loop
  wjob,          \* the job each worker thread is executing, or None
  nCheckers,     \* checker threads that are inside _checker_loop
  apiPc          \* the caller of the API: "idle", "join" inside stop(),
                 \* "put" inside run_job_now()

schedVars == <<now, schedRunning, job, jobs, job_queue, nStarts,
               wpc, wjob, nCheckers, apiPc>>

(* ------------------------------------------------------------------ *)
(* The caller of the scheduler's API                                   *)
(* ------------------------------------------------------------------ *)
VARIABLES
  nowJob,   \* run_job_now, its local variable job between the test and the put
  raised    \* an exception has left an API call and reached the caller

callerVars == <<nowJob, raised>>

(* ------------------------------------------------------------------ *)
(* Crawler state (one BaseCrawler object and its run)                  *)
(* ------------------------------------------------------------------ *)
VARIABLES
  cpc,          \* position in BaseCrawler.run: "start", "crawl", "summary", "done"
  cUrls,        \* the URLs fetch_sitemap returned
  frames,       \* the active calls of crawl_products, the innermost last
  cstats,       \* BaseCrawler.stats, its counters
  base_delay,   \* rate_limiter.base_delay, <<min, max>> in half seconds
  marker,       \* last_run.json exists in the retailer's base directory
  passLog,      \* the arun_many calls made so far: the URLs, the cache mode and
                \* the number of results that the loop over the results took
  cResults,     \* what the outermost crawl_products call returned
  summary,      \* summary.json of the run directory, or NoSummary
  nRuns         \* crawler objects made for the source so far

crawlVars == <<cpc, cUrls, frames, cstats, base_delay, marker, passLog, cResults,
               summary, nRuns>>

(* ------------------------------------------------------------------ *)
(* Store state (the SQLite file behind one ProductDatabase)            *)
(* ------------------------------------------------------------------ *)
VARIABLES
  rows,      \* table products, a set of rows
  search,    \* virtual table product_search, its entries in rowid order
  clock,     \* int(time.time())
  ms,        \* fallback identities handed out so far
  lastOp,    \* the last store call: what it was given and what it returned
  nOps       \* store calls made so far

storeVars == <<rows, search, clock, ms, lastOp, nOps>>

vars == <<schedVars, callerVars, crawlVars, storeVars>>

\* what the steps of each component leave alone
notSched == <<callerVars, crawlVars, storeVars>>
notCrawl == <<schedVars, callerVars, storeVars>>
notStore == <<schedVars, callerVars, crawlVars>>
notApi == <<crawlVars, storeVars>>

Threads == 1..MaxStarts
None == "None"

\* CrawlJob.__init__: the job state of a fresh job
NewJob(interval, enabled) ==
  [ interval_hours |-> interval,
    enabled |-> enabled,
    last_run |-> -1,
    next_run |-> now,
    running |-> FALSE,
    status |-> "idle",
    stats |-> "empty" ]

\* an is_due that takes a disabled job for due
is_due_ignoring_enabled(name) ==
  /\ ~job[name].running
  /\ now >= job[name].next_run

\* CrawlJob.is_due
is_due(name) ==
  /\ job[name].enabled
  /\ ~job[name].running
  /\ now >= job[name].next_run

\* name is a key of self.jobs
InJobs(name) == \E i \in 1..Len(jobs) : jobs[i] = name

\* CrawlScheduler.get_job: the job, or None
get_job(name) == IF InJobs(name) THEN name ELSE None

\* name is in the queue or being executed: a CrawlJob object of that name is
\* still referenced outside self.jobs
Referenced(name) ==
  \/ \E i \in 1..Len(job_queue) : job_queue[i] = name
  \/ \E w \in Threads : wjob[w] = name

\* the due jobs in the order in which self.jobs.values() yields them
DueJobs == SelectSeq(jobs, is_due)

SchedInit ==
  /\ now = 0
  /\ schedRunning = FALSE
  /\ job = [name \in RetailerNames |-> NewJob(1, FALSE)]
  /\ jobs = <<>>
  /\ job_queue = <<>>
  /\ nStarts = 0
  /\ wpc = [w \in Threads |-> "unborn"]
  /\ wjob = [w \in Threads |-> None]
  /\ nCheckers = 0
  /\ apiPc = "idle"
  /\ nowJob = None
  /\ raised = FALSE

\* the clock advances
Tick ==
  /\ now < MaxTime
  /\ now' = now + 1
  /\ UNCHANGED <<schedRunning, job, jobs, job_queue, nStarts, wpc, wjob, nCheckers, apiPc>>
  /\ UNCHANGED notSched

\* CrawlScheduler.add_job, for a name of which no CrawlJob object is live
\* (add_job of a name already in self.jobs replaces the object; a removed job
\* still queued or executing is a second object of the same name: the model
\* holds one object per name and leaves these two cases out)
\* CrawlJob.__init__ calls get_retailer_config, whose ValueError for a name
\* that is not supported leaves add_job before self.jobs is touched
add_job(name, interval, enabled) ==
  /\ apiPc = "idle"
  /\ ~InJobs(name)
  /\ ~Referenced(name)
  /\ IF IsSupported(name)
       THEN /\ job' = [job EXCEPT ![name] = NewJob(interval, enabled)]
            /\ jobs' = Append(jobs, name)
            /\ UNCHANGED raised
       ELSE /\ raised' = TRUE
            /\ UNCHANGED <<job, jobs>>
  /\ UNCHANGED <<now, schedRunning, job_queue, nStarts, wpc, wjob, nCheckers, apiPc, nowJob>>
  /\ UNCHANGED notApi

\* CrawlScheduler.remove_job
remove_job(name) ==
  /\ apiPc = "idle"
  /\ InJobs(name)
  /\ jobs' = SelectSeq(jobs, LAMBDA n : n # name)
  /\ UNCHANGED <<now, schedRunning, job, job_queue, nStarts, wpc, wjob, nCheckers, apiPc>>
  /\ UNCHANGED notSched

\* CrawlScheduler.start
start ==
  /\ apiPc = "idle"
  /\ ~schedRunning
  /\ nStarts < MaxStarts
  /\ schedRunning' = TRUE
  /\ nStarts' = nStarts + 1
  /\ wpc' = [wpc EXCEPT ![nStarts + 1] = "check"]
  /\ nCheckers' = nCheckers + 1
  /\ UNCHANGED <<now, job, jobs, job_queue, wjob, apiPc>>
  /\ UNCHANGED notSched

\* CrawlScheduler.stop up to worker_thread.join
stop ==
  /\ apiPc = "idle"
  /\ schedRunning
  /\ Len(job_queue) < MaxQueue
  /\ schedRunning' = FALSE
  /\ job_queue' = Append(job_queue, None)
  /\ apiPc' = "join"
  /\ UNCHANGED <<now, job, jobs, nStarts, wpc, wjob, nCheckers>>
  /\ UNCHANGED notSched

\* worker_thread.join(timeout=60) returns: the worker thread has ended, or the
\* timeout has passed while the worker is still executing a job
stop_join ==
  /\ apiPc = "join"
  /\ wpc[nStarts] \in {"dead", "run"}
  /\ apiPc' = "idle"
  /\ UNCHANGED <<now, schedRunning, job, jobs, job_queue, nStarts, wpc, wjob, nCheckers>>
  /\ UNCHANGED notSched

\* CrawlScheduler.run_job_now up to its put: get_job and the test of
\* job.running, neither inside "with self._lock"; the call goes on to the put
\* when the job exists and is not running
run_job_now(name) ==
  /\ apiPc = "idle"
  /\ get_job(name) # None
  /\ ~job[get_job(name)].running
  /\ apiPc' = "put"
  /\ nowJob' = get_job(name)
  /\ UNCHANGED <<now, schedRunning, job, jobs, job_queue, nStarts, wpc, wjob, nCheckers, raised>>
  /\ UNCHANGED notApi

\* CrawlScheduler.run_job_now: self.job_queue.put(job) and the return
run_job_now_put ==
  /\ apiPc = "put"
  /\ Len(job_queue) < MaxQueue
  /\ job_queue' = Append(job_queue, nowJob)
  /\ apiPc' = "idle"
  /\ nowJob' = None
  /\ UNCHANGED <<now, schedRunning, job, jobs, nStarts, wpc, wjob, nCheckers, raised>>
  /\ UNCHANGED notApi

\* what one pass of _checker_loop puts on the queue
CheckerPuts == DueJobs

\* one iteration of a thread in _checker_loop while the scheduler runs
checker_pass ==
  /\ nCheckers > 0
  /\ schedRunning
  /\ Len(job_queue) + Len(CheckerPuts) <= MaxQueue
  /\ job_queue' = job_queue \o CheckerPuts
  /\ UNCHANGED <<now, schedRunning, job, jobs, nStarts, wpc, wjob, nCheckers, apiPc>>
  /\ UNCHANGED notSched

\* a thread in _checker_loop finds self.running false and returns
checker_exit ==
  /\ nCheckers > 0
  /\ ~schedRunning
  /\ nCheckers' = nCheckers - 1
  /\ UNCHANGED <<now, schedRunning, job, jobs, job_queue, nStarts, wpc, wjob, apiPc>>
  /\ UNCHANGED notSched

\* _worker_loop: the test of "while self.running"
worker_check(w) ==
  /\ wpc[w] = "check"
  /\ wpc' = [wpc EXCEPT ![w] = IF schedRunning THEN "get" ELSE "dead"]
  /\ UNCHANGED <<now, schedRunning, job, jobs, job_queue, nStarts, wjob, nCheckers, apiPc>>
  /\ UNCHANGED notSched

\* a start of CrawlJob.run that leaves next_run as it is
JobAtRunStartKeepingNextRun(name) ==
  [job[name] EXCEPT !.running = TRUE,
                    !.status = "running",
                    !.last_run = now]

\* CrawlJob.run, its first four statements
JobAtRunStart(name) ==
  [job[name] EXCEPT !.running = TRUE,
                    !.status = "running",
                    !.last_run = now,
                    !.next_run = now + job[name].interval_hours]

\* _worker_loop: job = self.job_queue.get(); on None the loop breaks, on a
\* job the thread enters job.run
worker_get(w) ==
  /\ wpc[w] = "get"
  /\ job_queue # <<>>
  /\ job_queue' = Tail(job_queue)
  /\ IF Head(job_queue) = None
       THEN /\ wpc' = [wpc EXCEPT ![w] = "dead"]
            /\ UNCHANGED <<job, wjob>>
       ELSE /\ wpc' = [wpc EXCEPT ![w] = "run"]
            /\ wjob' = [wjob EXCEPT ![w] = Head(job_queue)]
            /\ job' = [job EXCEPT ![Head(job_queue)] = JobAtRunStart(Head(job_queue))]
  /\ UNCHANGED <<now, schedRunning, jobs, nStarts, nCheckers, apiPc>>
  /\ UNCHANGED notSched

\* what can happen in the try block of CrawlJob.run: the import of the crawler
\* raises, the crawl raises, the store write raises, or everything succeeds
RunOutcomes(name) ==
  IF HasCrawlerModule(name)
    THEN {"ok", "crawl_raises", "store_raises"}
    ELSE {"import_raises"}

\* a CrawlJob.run without its except clause: only the finally clause acts
JobAfterRunWithoutExcept(name, outcome) ==
  IF outcome = "ok"
    THEN [job[name] EXCEPT !.stats = "summary",
                           !.status = "completed",
                           !.running = FALSE]
    ELSE [job[name] EXCEPT !.running = FALSE]

\* the job state CrawlJob.run leaves behind: try / except Exception / finally
JobAfterRun(name, outcome) ==
  IF outcome = "ok"
    THEN [job[name] EXCEPT !.stats = "summary",
                           !.status = "completed",
                           !.running = FALSE]
    ELSE [job[name] EXCEPT !.stats = "error",
                           !.status = "failed",
                           !.running = FALSE]

\* where the worker thread is after job.run has returned: CrawlJob.run lets
\* no Exception out, and _worker_loop catches any other
WorkerAfterRun(outcome) == "check"

\* CrawlJob.run from the try block to its end, and the worker's return to
\* the head of its loop
run_end(w, outcome) ==
  /\ wpc[w] = "run"
  /\ outcome \in RunOutcomes(wjob[w])
  /\ job' = [job EXCEPT ![wjob[w]] = JobAfterRun(wjob[w], outcome)]
  /\ wpc' = [wpc EXCEPT ![w] = WorkerAfterRun(outcome)]
  /\ wjob' = [wjob EXCEPT ![w] = None]
  /\ UNCHANGED <<now, schedRunning, jobs, job_queue, nStarts, nCheckers, apiPc>>
  /\ UNCHANGED notSched

(* ------------------------------------------------------------------ *)
(* Crawl attempt engine (base_crawler.py)                              *)
(* ------------------------------------------------------------------ *)
Urls == 1..MaxUrls

\* rate_limit of the configured retailers, in half seconds
RateProfiles == { <<2, 6>>, <<3, 7>> }

\* RateLimiter(rate_limit_codes=...)
RateLimitCodes == {429, 503, 403, 520, 521, 522}

\* the retry ceiling of crawl_products
MaxRetries == 3

\* status_code of a fetch result that is no success; 0 stands for no status
FailureCodes == {0, 404, 429, 503}

\* what arun_many can hand back for one URL: a success, with what
\* process_result then does ("data", "none", or "raises"), or a failure
FetchResults ==
  [success : {TRUE}, status_code : {200}, extract : {"data", "none", "raises"}]
    \cup [success : {FALSE}, status_code : FailureCodes, extract : {"none"}]

NoSummary == [written |-> FALSE]

\* BaseCrawler.__init__: self.stats
InitStats ==
  [ urls_processed |-> 0, successful |-> 0, failed |-> 0,
    products_found |-> 0, retry_count |-> 0, rate_limited |-> 0 ]

\* a call of crawl_products(urls) that has reached its arun_many; entry is
\* the delay window at the time of the call
NewFrame(urls, delay) ==
  [ urls |-> urls, results |-> <<>>, original |-> <<>>, phase |-> "fetch",
    entry |-> delay ]

\* the elements of the set S of numbers as an ascending sequence
RECURSIVE Ascending(_)
Ascending(S) ==
  IF S = {} THEN <<>>
  ELSE LET m == CHOOSE x \in S : \A y \in S : x <= y
       IN <<m>> \o Ascending(S \ {m})

\* crawl_products, the loop over crawl_results: the URLs with extracted data
Extracted(urls, res) ==
  { u \in urls : res[u].success /\ res[u].extract = "data" }

\* a retry set that takes every URL of the pass
RetryUrlsAll(urls, res) == urls

\* crawl_products, the loop over crawl_results: retry_urls
RetryUrls(urls, res) == urls \ Extracted(urls, res)

\* a test that takes an extraction miss for rate-limited as well
IsRateLimitedOrMiss(r) ==
  \/ ~r.success /\ r.status_code \in RateLimitCodes
  \/ r.success /\ r.extract # "data"

\* crawl_products, the loop over crawl_results: is_rate_limited
IsRateLimited(r) == ~r.success /\ r.status_code \in RateLimitCodes

\* counters that take a rate-limited result for no failure
StatsAfterPassSparingRateLimited(st, urls, res) ==
  [ st EXCEPT
      !.urls_processed = Cardinality(urls),
      !.successful = @ + Cardinality(Extracted(urls, res)),
      !.products_found = @ + Cardinality(Extracted(urls, res)),
      !.failed = @ + Cardinality({ u \in RetryUrls(urls, res) : ~IsRateLimited(res[u]) }),
      !.rate_limited = @ + Cardinality({ u \in urls : IsRateLimited(res[u]) }) ]

\* a loop over crawl_results that counts a product for every result
StatsAfterPassFindingAll(st, urls, res) ==
  [ st EXCEPT
      !.urls_processed = Cardinality(urls),
      !.successful = @ + Cardinality(Extracted(urls, res)),
      !.products_found = @ + Cardinality(urls),
      !.failed = @ + Cardinality(RetryUrls(urls, res)),
      !.rate_limited = @ + Cardinality({ u \in urls : IsRateLimited(res[u]) }) ]

\* crawl_products, the loop over crawl_results: the counters afterwards
StatsAfterPass(st, urls, res) ==
  [ st EXCEPT
      !.urls_processed = Cardinality(urls),
      !.successful = @ + Cardinality(Extracted(urls, res)),
      !.products_found = @ + Cardinality(Extracted(urls, res)),
      !.failed = @ + Cardinality(RetryUrls(urls, res)),
      !.rate_limited = @ + Cardinality({ u \in urls : IsRateLimited(res[u]) }) ]

\* a retry test that lets one round too many through
RetryAllowedOnceMore(retry_urls, st) == retry_urls # {} /\ st.retry_count <= MaxRetries

\* crawl_products: the test that starts a retry round
RetryAllowed(retry_urls, st) == retry_urls # {} /\ st.retry_count < MaxRetries

\* crawl_products: the retry-round counter when a retry round starts
RetryCountAfter(st) == st.retry_count + 1

\* a delay window multiplied by the number of the round
WidenedDelayByRound(original, retry_count) ==
  << original[1] * retry_count, original[2] * retry_count >>

\* crawl_products: the delay window for a retry round
WidenedDelay(original, retry_count) ==
  << original[1] * (retry_count + 1), original[2] * (retry_count + 1) >>

\* crawl_products: use_cache
CacheMode == IF marker THEN "ENABLED" ELSE "BYPASS"

CrawlInit ==
  /\ cpc = "start"
  /\ cUrls \in SUBSET Urls
  /\ frames = <<>>
  /\ cstats = InitStats
  /\ base_delay \in RateProfiles
  /\ marker \in BOOLEAN
  /\ passLog = <<>>
  /\ cResults = <<>>
  /\ summary = NoSummary
  /\ nRuns = 1

\* the crawler of a scheduler that is not inside a crawl
CrawlIdle ==
  /\ cpc = "done"
  /\ cUrls = {}
  /\ frames = <<>>
  /\ cstats = InitStats
  /\ base_delay = <<2, 6>>
  /\ marker = FALSE
  /\ passLog = <<>>
  /\ cResults = <<>>
  /\ summary = NoSummary
  /\ nRuns = 0

Top == frames[Len(frames)]

\* BaseCrawler.run up to the call of crawl_products, and crawl_products up to
\* its arun_many; without URLs both return at once
crawler_run ==
  /\ cpc = "start"
  /\ IF cUrls = {}
       THEN cpc' = "summary" /\ UNCHANGED frames
       ELSE cpc' = "crawl" /\ frames' = <<NewFrame(cUrls, base_delay)>>
  /\ UNCHANGED <<cUrls, cstats, base_delay, marker, passLog, cResults, summary, nRuns>>
  /\ UNCHANGED notCrawl

\* crawl_products from arun_many to the recursive call (a retry round is
\* started) or to the end of its try block (none is)
fetch_pass(res) ==
  /\ cpc = "crawl"
  /\ Top.phase = "fetch"
  /\ LET urls == Top.urls
         st == StatsAfterPass(cstats, urls, res)
         got == Ascending(Extracted(urls, res))
         retry_urls == RetryUrls(urls, res)
     IN /\ passLog' = Append(passLog, [urls |-> urls, cache_mode |-> CacheMode,
                                       processed |-> Cardinality(urls)])
        /\ IF RetryAllowed(retry_urls, st)
             THEN /\ cstats' = [st EXCEPT !.retry_count = RetryCountAfter(st)]
                  /\ base_delay' = WidenedDelay(base_delay, RetryCountAfter(st))
                  /\ frames' = Append(
                       [frames EXCEPT ![Len(frames)] =
                          [@ EXCEPT !.results = got, !.original = base_delay, !.phase = "retrying"]],
                       NewFrame(retry_urls, WidenedDelay(base_delay, RetryCountAfter(st))))
             ELSE /\ cstats' = st
                  /\ base_delay' = base_delay
                  /\ frames' = [frames EXCEPT ![Len(frames)] =
                                  [@ EXCEPT !.results = got, !.phase = "finish"]]
  /\ UNCHANGED <<cpc, cUrls, marker, cResults, summary, nRuns>>
  /\ UNCHANGED notCrawl

\* arun_many (or the browser session around it) raises: "Error in batch crawl"
fetch_raises ==
  /\ cpc = "crawl"
  /\ Top.phase = "fetch"
  /\ passLog' = Append(passLog, [urls |-> Top.urls, cache_mode |-> CacheMode,
                                  processed |-> 0])
  /\ frames' = [frames EXCEPT ![Len(frames)] = [@ EXCEPT !.phase = "finish"]]
  /\ UNCHANGED <<cpc, cUrls, cstats, base_delay, marker, cResults, summary, nRuns>>
  /\ UNCHANGED notCrawl

\* a return from the recursive call without the finally clause
KeptDelay(frame) == base_delay

\* a caller that drops what the retry round returned
MergedResultsWithoutRetry(own, retry_results) == own

\* crawl_products: results.extend(retry_results)
MergedResults(own, retry_results) == own \o retry_results

\* the delay window after a recursive call has come back: the finally clause
RestoredDelay(frame) == frame.original

\* crawl_products from the end of its try block: last_run.json is written and
\* the results are returned, to the calling crawl_products (which extends its
\* results, restores the delay window and ends its own try block) or to run
frame_return ==
  /\ cpc = "crawl"
  /\ Top.phase = "finish"
  /\ marker' = TRUE
  /\ IF Len(frames) = 1
       THEN /\ cResults' = Top.results
            /\ frames' = <<>>
            /\ cpc' = "summary"
            /\ UNCHANGED base_delay
       ELSE LET caller == frames[Len(frames) - 1] IN
            /\ frames' = Append(
                 SubSeq(frames, 1, Len(frames) - 2),
                 [caller EXCEPT !.results = MergedResults(@, Top.results),
                                !.phase = "finish"])
            /\ base_delay' = RestoredDelay(caller)
            /\ UNCHANGED <<cResults, cpc>>
  /\ UNCHANGED <<cUrls, cstats, passLog, summary, nRuns>>
  /\ UNCHANGED notCrawl

\* BaseCrawler.get_summary
get_summary ==
  /\ cpc = "summary"
  /\ summary' = [ written |-> TRUE,
                  urls_processed |-> cstats.urls_processed,
                  successful |-> cstats.successful,
                  failed |-> cstats.failed,
                  products_found |-> cstats.products_found ]
  /\ cpc' = "done"
  /\ UNCHANGED <<cUrls, frames, cstats, base_delay, marker, passLog, cResults, nRuns>>
  /\ UNCHANGED notCrawl

\* BaseCrawler.__init__ and fetch_sitemap of the next crawler object that is
\* made for the source after a run has returned: counters at zero, a run
\* directory of its own, the delay window of the source's rate profile (to
\* which the run before has come back), and the base directory, with
\* last_run.json if it is there, as the run before left it
crawler_init(urls) ==
  /\ cpc = "done"
  /\ nRuns < MaxRuns
  /\ nRuns' = nRuns + 1
  /\ cpc' = "start"
  /\ cUrls' = urls
  /\ frames' = <<>>
  /\ cstats' = InitStats
  /\ passLog' = <<>>
  /\ cResults' = <<>>
  /\ summary' = NoSummary
  /\ UNCHANGED <<base_delay, marker>>
  /\ UNCHANGED notCrawl

CrawlNext ==
  \/ \E urls \in SUBSET Urls : crawler_init(urls)
  \/ crawler_run
  \/ \E res \in [Urls -> FetchResults] : fetch_pass(res)
  \/ fetch_raises
  \/ frame_return
  \/ get_summary

(* ------------------------------------------------------------------ *)
(* Product store (database.py)                                         *)
(* ------------------------------------------------------------------ *)
\* Strings that the store takes apart are sequences of characters.
UrlA1 == <<"a", "/", "1">>
UrlB1 == <<"b", "/", "1">>
UrlA2 == <<"a", "/", "2">>
UrlSlash == <<"a", "/">>
NoString == <<>>

NoPrice == [kind |-> "absent", current |-> -1, currency |-> "-"]

Product(url, id, title, description, brand, category, price, retailer) ==
  [ url |-> url, id |-> id, title |-> title, description |-> description,
    brand |-> brand, category |-> category, price |-> price, retailer |-> retailer ]

\* The product documents given to the store: two documents of the same URL,
\* a document of another URL with the same last path segment, one with an
\* explicit id, one whose URL ends in a slash and one without URL.
Products ==
  { Product(UrlA1, NoString, "coffee", "fresh", "acme", "drinks",
            [kind |-> "dict", current |-> 5, currency |-> "ZAR"], "PriceCheck"),
    Product(UrlA1, NoString, "tea", "green", "zed", "food",
            [kind |-> "number", current |-> 7, currency |-> "-"], "PriceCheck"),
    Product(UrlB1, NoString, "coffee", "fresh", "acme", "drinks",
            [kind |-> "dict", current |-> 5, currency |-> "ZAR"], "Checkers"),
    Product(UrlA2, <<"1">>, "tea", "green", "acme", "food", NoPrice, "Checkers"),
    Product(UrlSlash, NoString, "tea", "fresh", "zed", "drinks",
            [kind |-> "dict", current |-> 6, currency |-> "USD"], "PriceCheck"),
    Product(NoString, NoString, "coffee", "green", "zed", "food", NoPrice, "PriceCheck") }

\* the sequences over S of length 1..n
SeqsUpTo(S, n) == UNION { [1..k -> S] : k \in 1..n }

\* the batches given to bulk_upsert_products
Batches == SeqsUpTo(Products, MaxBatch)

\* where a statement of one record's upsert can fail: nowhere, at the
\* INSERT/UPDATE of products, at the DELETE or at the INSERT of product_search
Faults == {"none", "products", "index_delete", "index_insert"}

\* which statements fail in a call on n records, and whether its COMMIT does:
\* up to MaxFaults single failures, or a storage that is gone from one
\* statement on (every later record fails at its first write, COMMIT fails)
FaultPlans(n) ==
  { plan \in [at : [1..n -> Faults], commit_ok : BOOLEAN] :
      \/ Cardinality({ k \in 1..n : plan.at[k] # "none" })
           + (IF plan.commit_ok THEN 0 ELSE 1) <= MaxFaults
      \/ /\ ~plan.commit_ok
         /\ \E k \in 1..n :
              /\ plan.at[k] # "none"
              /\ \A j \in 1..n : j < k => plan.at[j] = "none"
              /\ \A j \in 1..n : j > k => plan.at[j] = "products" }

\* url.split("/")[-1]
RECURSIVE LastSegment(_)
LastSegment(url) ==
  IF url = <<>> THEN <<>>
  ELSE IF url[Len(url)] = "/" THEN <<>>
  ELSE Append(LastSegment(SubSeq(url, 1, Len(url) - 1)), url[Len(url)])

\* str(int(time.time() * 1000)): the n-th fallback identity; the model gives
\* every use its own timestamp
Stamp(n) == <<"t", IF n = 0 THEN "0" ELSE IF n = 1 THEN "1" ELSE IF n = 2 THEN "2" ELSE "3">>

\* a product_id that takes the timestamp where the record carries no id
ProductIdStamped(p, n) ==
  IF p.id # <<>> THEN p.id ELSE Stamp(n)

\* product_id of upsert_product and bulk_upsert_products
ProductId(p, n) ==
  IF p.id # <<>> THEN p.id
  ELSE IF LastSegment(p.url) # <<>> THEN LastSegment(p.url)
  ELSE Stamp(n)

\* the record needs a fallback identity
NeedsStamp(p) == p.url # <<>> /\ p.id = <<>> /\ LastSegment(p.url) = <<>>

\* a price column that takes numbers only
PriceColumnOfNumbers(p) ==
  IF p.price.kind = "number" THEN p.price.current ELSE -1

\* price of upsert_product: the "current" of a dict, a number itself, else None (-1)
PriceColumn(p) ==
  IF p.price.kind \in {"dict", "number"} THEN p.price.current ELSE -1

\* SELECT ... FROM products WHERE id = ?
RowsWithId(rs, id) == { r \in rs : r.id = id }

\* the UPDATE or the INSERT of upsert_product
WriteRow(rs, p, id, t) ==
  LET new(created) ==
        [ id |-> id, retailer |-> p.retailer, title |-> p.title,
          description |-> p.description, price |-> PriceColumn(p),
          brand |-> p.brand, category |-> p.category, url |-> p.url,
          data |-> p, created_at |-> created, updated_at |-> t ]
  IN IF RowsWithId(rs, id) # {}
       THEN { IF r.id = id THEN new(r.created_at) ELSE r : r \in rs }
       ELSE rs \cup { new(t) }

\* DELETE FROM product_search WHERE id = ?
IndexWithout(idx, id) == SelectSeq(idx, LAMBDA e : e.id # id)

\* the values of INSERT INTO product_search
IndexEntry(p, id) ==
  [ id |-> id, title |-> p.title, description |-> p.description,
    brand |-> p.brand, category |-> p.category ]

\* an index update that leaves the DELETE out
IndexAppended(idx, p, id) == Append(idx, IndexEntry(p, id))

\* "Update search index": the DELETE, then the INSERT
IndexRefreshed(idx, p, id) == Append(IndexWithout(idx, id), IndexEntry(p, id))

\* a URL test that lets every record through
HasUrlAlways(p) == TRUE

\* "if not url": the record has a URL
HasUrl(p) == p.url # <<>>

\* One record's statements against the state st of the open transaction:
\* the body of the per-record try block, stopped at the fault if there is one.
UpsertSteps(st, p, fault) ==
  LET id == ProductId(p, st.ms)
      ms1 == IF NeedsStamp(p) THEN st.ms + 1 ELSE st.ms
      written == WriteRow(st.rows, p, id, st.clock)
  IN IF ~HasUrl(p)
       THEN [st EXCEPT !.ok = FALSE]
     ELSE IF fault = "products"
       THEN [st EXCEPT !.ms = ms1, !.ok = FALSE]
     ELSE IF fault = "index_delete"
       THEN [st EXCEPT !.ms = ms1, !.rows = written, !.ok = FALSE]
     ELSE IF fault = "index_insert"
       THEN [st EXCEPT !.ms = ms1, !.rows = written,
                       !.search = IndexWithout(st.search, id), !.ok = FALSE]
     ELSE [st EXCEPT !.ms = ms1, !.rows = written,
                     !.search = IndexRefreshed(st.search, p, id), !.ok = TRUE]

\* the state of a transaction that starts from the store as it is
Txn == [ rows |-> rows, search |-> search, clock |-> clock, ms |-> ms,
         ok |-> TRUE, success |-> 0, failure |-> 0 ]

\* bulk_upsert_products, its loop: the first k records of the batch done
RECURSIVE BulkLoop(_, _, _)
BulkLoop(batch, faults, k) ==
  IF k = 0 THEN Txn
  ELSE LET before == BulkLoop(batch, faults, k - 1)
           after == UpsertSteps(before, batch[k], faults[k])
       IN IF after.ok
            THEN [after EXCEPT !.success = @ + 1]
            ELSE [after EXCEPT !.failure = @ + 1]

\* the fallback identities a batch uses stay within the model's supply
StampsSuffice(batch) ==
  ms + Cardinality({ k \in 1..Len(batch) : NeedsStamp(batch[k]) }) <= MaxMs

\* the positions of the batch that bulk_upsert_products counts as failures
BulkFailed(batch, faults) ==
  { k \in 1..Len(batch) :
      ~UpsertSteps(BulkLoop(batch, faults, k - 1), batch[k], faults[k]).ok }

\* a COMMIT that always goes through
CommittedAlways(after, commit_ok) == after

\* the store after COMMIT, or after the ROLLBACK that follows a failed COMMIT
Committed(after, commit_ok) == IF commit_ok THEN after ELSE Txn

\* ProductDatabase.get_product_by_id: the product document in <<...>>, or
\* <<>> for None
get_product_by_id(id) ==
  IF RowsWithId(rows, id) = {} THEN <<>>
  ELSE << (CHOOSE r \in RowsWithId(rows, id) : TRUE).data >>

StoreInit ==
  /\ rows = {}
  /\ search = <<>>
  /\ clock = 0
  /\ ms = 0
  /\ lastOp = [op |-> "none"]
  /\ nOps = 0

\* time passes between two store calls
store_tick ==
  /\ clock < MaxClock
  /\ clock' = clock + 1
  /\ UNCHANGED <<rows, search, ms, lastOp, nOps>>
  /\ UNCHANGED notStore

\* ProductDatabase.upsert_product: the transaction is committed only when
\* every statement went through
upsert_product(p, fault) ==
  /\ nOps < MaxOps
  /\ nOps' = nOps + 1
  /\ StampsSuffice(<<p>>)
  /\ LET after == UpsertSteps(Txn, p, fault) IN
       /\ IF after.ok
            THEN rows' = after.rows /\ search' = after.search
            ELSE UNCHANGED <<rows, search>>
       /\ ms' = after.ms
       /\ lastOp' = [ op |-> "upsert", batch |-> <<p>>, clean |-> fault = "none",
                      committed |-> after.ok,
                      failed |-> IF after.ok THEN {} ELSE {1},
                      ret |-> <<IF after.ok THEN 1 ELSE 0, IF after.ok THEN 0 ELSE 1>> ]
  /\ UNCHANGED clock
  /\ UNCHANGED notStore

\* ProductDatabase.bulk_upsert_products: BEGIN, the loop, COMMIT; a COMMIT
\* that fails is followed by ROLLBACK
bulk_upsert_products(batch, faults, commit_ok) ==
  /\ nOps < MaxOps
  /\ nOps' = nOps + 1
  /\ StampsSuffice(batch)
  /\ LET after == BulkLoop(batch, faults, Len(batch)) IN
       /\ rows' = Committed(after, commit_ok).rows
       /\ search' = Committed(after, commit_ok).search
       /\ ms' = after.ms
       /\ lastOp' = [ op |-> "bulk", batch |-> batch,
                      clean |-> commit_ok /\ \A k \in 1..Len(batch) : faults[k] = "none",
                      committed |-> commit_ok,
                      failed |-> BulkFailed(batch, faults),
                      ret |-> <<after.success, after.failure>> ]
  /\ UNCHANGED clock
  /\ UNCHANGED notStore

\* ProductDatabase.delete_product
delete_product(id, fails) ==
  /\ nOps < MaxOps
  /\ nOps' = nOps + 1
  /\ IF fails
       THEN UNCHANGED <<rows, search>>
       ELSE /\ rows' = rows \ RowsWithId(rows, id)
            /\ search' = IndexWithout(search, id)
  /\ lastOp' = [ op |-> "delete", batch |-> <<>>, clean |-> ~fails,
                 committed |-> ~fails, failed |-> {},
                 ret |-> <<IF ~fails /\ search # IndexWithout(search, id) THEN 1 ELSE 0, 0>> ]
  /\ UNCHANGED <<clock, ms>>
  /\ UNCHANGED notStore

\* ProductDatabase.clear_retailer_data
clear_retailer_data(retailer, fails) ==
  LET gone == { r \in rows : r.retailer = retailer }
      ids == { r.id : r \in gone }
  IN /\ nOps < MaxOps
     /\ nOps' = nOps + 1
     /\ IF fails
          THEN UNCHANGED <<rows, search>>
          ELSE /\ rows' = rows \ gone
               /\ search' = SelectSeq(search, LAMBDA e : e.id \notin ids)
     /\ lastOp' = [ op |-> "clear", batch |-> <<>>, clean |-> ~fails,
                    committed |-> ~fails, failed |-> {},
                    ret |-> <<IF fails THEN 0 ELSE Cardinality(gone), 0>> ]
     /\ UNCHANGED <<clock, ms>>
     /\ UNCHANGED notStore

\* the identities the store may be asked to delete
\* ---- find_products -------------------------------------------------
\* the words asked for: a word of the text columns, a word that is an
\* identity, a word that no record carries
Queries == {None, "coffee", "1", "zzz"}

\* the exact-match filters that are given
Exact(f) == { x \in {f.retailer, f.category, f.brand} : x # None }

\* the price bounds that are given
Bounds(f) == { x \in {f.min_price, f.max_price} : x # -1 }

\* the arguments of find_products that the model tries; None and -1 stand
\* for an argument that is not given. The calls are those with one filter
\* beside the query (one of retailer, category and brand, or a price range of
\* one or two bounds) or with retailer and both bounds, on the first page of
\* MaxLimit rows, and those with no filter beside the query on every page.
FindArgs ==
  { f \in [ query : Queries, retailer : {None, "PriceCheck"},
            category : {None, "drinks"}, brand : {None, "acme"},
            min_price : {-1, 5, 6}, max_price : {-1, 5, 6},
            limit : 1..MaxLimit, offset : 0..1 ] :
      /\ <<f.min_price, f.max_price>> \in {<<-1, -1>>, <<5, 6>>, <<6, -1>>, <<-1, 5>>}
      /\ \/ Exact(f) = {} /\ Bounds(f) = {}
         \/ /\ f.limit = MaxLimit /\ f.offset = 0
            /\ \/ Cardinality(Exact(f)) = 1 /\ Bounds(f) = {}
               \/ Exact(f) = {} /\ Bounds(f) # {}
               \/ Exact(f) = {"PriceCheck"} /\ Cardinality(Bounds(f)) = 2 }

\* product_search MATCH ?: the entry carries the word in one of its columns,
\* which are id, title, description, brand and category (an identity of one
\* character is the word of that character)
Matches(entry, query) ==
  \/ query \in {entry.title, entry.description, entry.brand, entry.category}
  \/ entry.id = <<query>>

\* matching_ids
MatchingIds(query) ==
  { search[i].id : i \in { j \in 1..Len(search) : Matches(search[j], query) } }

\* "if matching_ids: ... else: return [], 0"
EmptyMatch(f) == f.query # None /\ MatchingIds(f.query) = {}

\* where_sql: the clauses of the arguments that are given, joined by AND; a
\* comparison with a NULL price is not true
Where(f, r) ==
  /\ f.query # None => r.id \in MatchingIds(f.query)
  /\ f.retailer # None => r.retailer = f.retailer
  /\ f.category # None => r.category = f.category
  /\ f.brand # None => r.brand = f.brand
  /\ f.min_price # -1 => (r.price # -1 /\ r.price >= f.min_price)
  /\ f.max_price # -1 => (r.price # -1 /\ r.price <= f.max_price)

\* SELECT COUNT(*) FROM products WHERE where_sql
total_count(f) == Cardinality({ r \in rows : Where(f, r) })

\* ORDER BY updated_at DESC: the orders in which the rows can come, rows of
\* the same updated_at in any order
ByUpdatedDesc(rs) ==
  { ord \in [1..Cardinality(rs) -> rs] :
      /\ \A i, j \in 1..Cardinality(rs) : ord[i] = ord[j] => i = j
      /\ \A i, j \in 1..Cardinality(rs) : i < j => ord[i].updated_at >= ord[j].updated_at }

\* a page that starts at the first row whatever the offset
PageFromStart(ord, limit, offset) ==
  [ i \in 1..(IF Len(ord) < limit THEN Len(ord) ELSE limit) |-> ord[i] ]

\* LIMIT ? OFFSET ?
Page(ord, limit, offset) ==
  LET last == IF Len(ord) < offset + limit THEN Len(ord) ELSE offset + limit
  IN [ i \in 1..(IF last > offset THEN last - offset ELSE 0) |-> ord[offset + i] ]

\* products: json.loads(row['data']) of every row of the page
Documents(page) == [ i \in 1..Len(page) |-> page[i].data ]

\* a find_products that lets the error out of its try block
WithoutExcept(result, fails) == result

\* "except Exception as e: ... return [], 0"
AfterExcept(result, fails) == IF fails THEN <<<<>>, 0>> ELSE result

\* ProductDatabase.find_products: reads the store; a statement of it may fail
find_products(f, fails) ==
  /\ nOps < MaxCalls
  /\ lastOp.op # "find"
  /\ nOps' = nOps + 1
  /\ \E ord \in ByUpdatedDesc({ r \in rows : Where(f, r) }) :
       lastOp' = [ op |-> "find", batch |-> <<>>, clean |-> ~fails,
                   committed |-> FALSE, failed |-> {}, args |-> f,
                   ret |-> AfterExcept(
                             IF EmptyMatch(f) THEN <<<<>>, 0>>
                             ELSE <<Documents(Page(ord, f.limit, f.offset)), total_count(f)>>,
                             fails) ]
  /\ UNCHANGED <<rows, search, clock, ms>>
  /\ UNCHANGED notStore

KnownIds == { <<"1">>, <<"2">>, Stamp(0) }

StoreNext ==
  \/ store_tick
  \/ \E p \in Products, fault \in Faults : upsert_product(p, fault)
  \/ \E batch \in Batches :
       \E plan \in FaultPlans(Len(batch)) :
         bulk_upsert_products(batch, plan.at, plan.commit_ok)
  \/ \E id \in KnownIds, fails \in BOOLEAN : delete_product(id, fails)
  \/ \E retailer \in {"PriceCheck", "Checkers"}, fails \in BOOLEAN :
       clear_retailer_data(retailer, fails)
  \/ \E f \in FindArgs, fails \in BOOLEAN : find_products(f, fails)

\* the store of a scheduler or crawler whose store calls are not modelled
StoreIdle == StoreInit

(* ------------------------------------------------------------------ *)
(* Scheduler: observers used by the properties                         *)
(* ------------------------------------------------------------------ *)
\* number of entries of the queue q that are the job name
Count(name, q) == Cardinality({ i \in 1..Len(q) : q[i] = name })

InQueue(name) == Count(name, job_queue) > 0

\* worker threads inside CrawlJob.run
Executing == { w \in Threads : wpc[w] = "run" }

\* worker threads inside _worker_loop
AliveWorkers == { w \in Threads : wpc[w] \in {"check", "get", "run"} }

\* worker w enters CrawlJob.run in this step
StartsRun(w) == wpc[w] # "run" /\ wpc'[w] = "run"

\* worker w leaves CrawlJob.run in this step
EndsRun(w) == wpc[w] = "run" /\ wpc'[w] # "run"

Next ==
  \/ Tick
  \/ \E name \in RetailerNames \cup UnsupportedNames, interval \in 1..MaxInterval,
          enabled \in BOOLEAN :
       add_job(name, interval, enabled)
  \/ \E name \in RetailerNames : remove_job(name)
  \/ start
  \/ stop
  \/ stop_join
  \/ \E name \in RetailerNames : run_job_now(name)
  \/ run_job_now_put
  \/ checker_pass
  \/ checker_exit
  \/ \E w \in Threads : worker_check(w)
  \/ \E w \in Threads : worker_get(w)
  \/ \E w \in Threads : \E outcome \in {"ok", "crawl_raises", "store_raises", "import_raises"} :
       run_end(w, outcome)

Init == SchedInit /\ CrawlIdle /\ StoreIdle

\* the steps of a scheduler on which run_job_now is never called
NoRunNowNext ==
  \/ Tick
  \/ \E name \in RetailerNames \cup UnsupportedNames, interval \in 1..MaxInterval,
          enabled \in BOOLEAN :
       add_job(name, interval, enabled)
  \/ \E name \in RetailerNames : remove_job(name)
  \/ start
  \/ stop
  \/ stop_join
  \/ checker_pass
  \/ checker_exit
  \/ \E w \in Threads : worker_check(w)
  \/ \E w \in Threads : worker_get(w)
  \/ \E w \in Threads : \E outcome \in {"ok", "crawl_raises", "store_raises", "import_raises"} :
       run_end(w, outcome)

\* the scheduler with jobs queued by the checker only
NoRunNowSpec == Init /\ [][NoRunNowNext]_vars

\* the scheduler: API calls, checker threads and worker threads
Spec == Init /\ [][Next]_vars

CrawlSpecInit == SchedInit /\ CrawlInit /\ StoreIdle

\* one run of a crawler object
CrawlSpec == CrawlSpecInit /\ [][CrawlNext]_vars

\* a crawl whose thread is never held up for ever
CrawlFairSpec == CrawlSpec /\ WF_vars(CrawlNext)

StoreSpecInit == SchedInit /\ CrawlIdle /\ StoreInit

\* the calls made on one product store
StoreSpec == StoreSpecInit /\ [][StoreNext]_vars

(* ------------------------------------------------------------------ *)
(* Scheduler properties                                                *)
(* ------------------------------------------------------------------ *)

\* C1: at most one job execution (CrawlJob.run) is in progress at any time
\* across the whole scheduler.
C1_OneExecutionAtATime == Cardinality(Executing) <= 1

\* C2: a checker pass made while a worker is busy executing a job never puts
\* on the queue a job that is already waiting in the queue or is running.
C2_CheckerNeverReEnqueues ==
  [][ (checker_pass /\ Executing # {}) =>
        \A i \in 1..Len(CheckerPuts) :
          /\ ~InQueue(CheckerPuts[i])
          /\ ~job[CheckerPuts[i]].running ]_vars

\* C3: no job is at once running (running = TRUE) and present in the queue.
C3_RunningNotQueued ==
  \A name \in RetailerNames : job[name].running => ~InQueue(name)

\* C4: a checker pass of the started scheduler puts on the queue exactly one
\* entry for every job of self.jobs that is enabled, not running and whose
\* next_run is not after now, and no entry for any other job.
C4_CheckerQueuesExactlyDue ==
  [][ checker_pass =>
        \A name \in RetailerNames :
          Count(name, job_queue') =
            Count(name, job_queue) +
              (IF /\ InJobs(name)
                  /\ job[name].enabled
                  /\ ~job[name].running
                  /\ job[name].next_run <= now
                THEN 1 ELSE 0) ]_vars

\* C4 witness: the scheduler is started with a live checker, the newest queue
\* entry is an enabled, due job of self.jobs, and a disabled job of self.jobs
\* is not queued.
C4_Witness ==
  /\ schedRunning /\ nCheckers > 0
  /\ job_queue # <<>>
  /\ LET name == job_queue[Len(job_queue)] IN
       /\ name # None
       /\ InJobs(name) /\ job[name].enabled /\ ~job[name].running
       /\ job[name].next_run <= now
       /\ Count(name, job_queue) = 1
  /\ \E other \in RetailerNames :
       InJobs(other) /\ ~job[other].enabled /\ ~InQueue(other)

\* C5: when a job execution ends, the job is left with running = FALSE and
\* status completed or failed, a failed job carries the error payload, a job
\* whose crawler cannot be imported ends failed, and the worker thread is
\* back at the head of its loop, alive.
C5_ExceptionStaysInJob ==
  [][ \A w \in Threads :
        EndsRun(w) =>
          /\ ~job'[wjob[w]].running
          /\ job'[wjob[w]].status \in {"completed", "failed"}
          /\ (job'[wjob[w]].status = "failed") = (job'[wjob[w]].stats = "error")
          /\ (~HasCrawlerModule(wjob[w]) => job'[wjob[w]].status = "failed")
          /\ wpc'[w] = "check" ]_vars

\* C5 witness: the only worker ever created executes a job while another job,
\* which it executed before, has ended failed and not running, and the
\* checker is alive.
C5_Witness ==
  /\ nStarts = 1 /\ nCheckers = 1 /\ schedRunning
  /\ \E a, b \in RetailerNames :
       /\ a # b
       /\ job[a].status = "failed" /\ job[a].stats = "error" /\ ~job[a].running
       /\ wpc[1] = "run" /\ wjob[1] = b

\* C6: once stop() has been called and while start() is not called again, no
\* worker starts a further job execution.
C6_NoJobStartsAfterStop ==
  [][ (nStarts > 0 /\ ~schedRunning) => \A w \in Threads : ~StartsRun(w) ]_vars

(* ------------------------------------------------------------------ *)
(* Crawl engine: properties                                            *)
(* ------------------------------------------------------------------ *)
\* C7: whatever the fetch and extraction outcomes are, a crawl makes at most
\* 4 fetch passes and at most 3 retry rounds, every pass after the first
\* belongs to a retry round counted by the one retry counter, the counter
\* of a crawler object never decreases, and the crawl comes to its end.
C7_AtMostThreeRetryRounds ==
  /\ [](/\ Len(passLog) <= 4
        /\ cstats.retry_count <= 3
        /\ Len(passLog) <= cstats.retry_count + 1)
  /\ [][nRuns' = nRuns => cstats'.retry_count >= cstats.retry_count]_vars
  /\ <>(cpc = "done")

\* C7 witness: a crawl has ended after 4 fetch passes with the retry counter
\* at 3 and a URL still failing in the last pass.
C7_Witness ==
  /\ cpc = "done"
  /\ Len(passLog) = 4
  /\ cstats.retry_count = 3
  /\ cstats.failed >= 4

(* ------------------------------------------------------------------ *)
(* Product store: observers and properties                             *)
(* ------------------------------------------------------------------ *)
\* the positions of the index entries of an identity
EntriesOf(id) == { i \in 1..Len(search) : search[i].id = id }

\* the entries of the identity that a query against the title finds
TitleMatches(id, title) == { i \in EntriesOf(id) : search[i].title = title }

\* the last call was an upsert or bulk upsert in which no statement failed
CleanUpsert == lastOp.op \in {"upsert", "bulk"} /\ lastOp.clean

\* the identity of a record that does not depend on the time of the call
StableId(p) == ProductId(p, 0)

\* C8: the table holds at most one row per identity; after an upsert or bulk
\* upsert that went through, every record of the call whose identity derives
\* from the record has exactly one row and exactly one index entry, and a
\* query against the row's title finds that entry.
C8_OneRowPerIdentity ==
  /\ \A r1, r2 \in rows : r1.id = r2.id => r1 = r2
  /\ CleanUpsert =>
       \A k \in 1..Len(lastOp.batch) :
         LET p == lastOp.batch[k] IN
           (p.url # <<>> /\ ~NeedsStamp(p)) =>
             /\ Cardinality(RowsWithId(rows, StableId(p))) = 1
             /\ Cardinality(EntriesOf(StableId(p))) = 1
             /\ \A r \in RowsWithId(rows, StableId(p)) :
                  Cardinality(TitleMatches(StableId(p), r.title)) = 1

\* C8 witness: a record was upserted at time 0 and a record of the same
\* identity and another title at time 1; the row of time 0 carries the new
\* title, and the index holds one entry for it.
C8_Witness ==
  /\ lastOp.op = "upsert" /\ lastOp.clean
  /\ nOps = 2
  /\ \E r \in rows :
       /\ r.id = StableId(lastOp.batch[1])
       /\ r.created_at = 0 /\ r.updated_at = 1
       /\ r.title = "tea" /\ lastOp.batch[1].title = "tea"
       /\ Cardinality(TitleMatches(r.id, "tea")) = 1

\* C9: after every store call the identities of the index are the identities
\* of the table, and every index entry carries the title, description, brand
\* and category of its row.
C9_IndexInSync ==
  /\ { search[i].id : i \in 1..Len(search) } = { r.id : r \in rows }
  /\ \A i \in 1..Len(search) :
       \E r \in rows :
         /\ r.id = search[i].id
         /\ r.title = search[i].title
         /\ r.description = search[i].description
         /\ r.brand = search[i].brand
         /\ r.category = search[i].category

\* the URLs of the batch are there and pairwise distinct
DistinctUrls(batch) ==
  /\ \A k \in 1..Len(batch) : batch[k].url # <<>>
  /\ \A j, k \in 1..Len(batch) : batch[j].url = batch[k].url => j = k

\* C10: after a bulk upsert, in which no statement failed, of a batch of
\* records with pairwise distinct URLs, made for the first or a further time,
\* the table holds exactly one row for every record of the batch.
C10_OneRowPerRecord ==
  (lastOp.op = "bulk" /\ lastOp.clean /\ DistinctUrls(lastOp.batch)) =>
    \A k \in 1..Len(lastOp.batch) :
      Cardinality({ r \in rows : r.url = lastOp.batch[k].url }) = 1

(* ------------------------------------------------------------------ *)
(* Scheduler: further properties                                       *)
(* ------------------------------------------------------------------ *)
\* a CrawlJob object of that name exists: it is in self.jobs, in the queue
\* or being executed
Live(name) == InJobs(name) \/ Referenced(name)

\* C11: the next_run of a job changes only in the step that starts an
\* execution of that job, where it becomes the start time plus the interval;
\* putting the job on the queue (checker, run_job_now), leaving it there and
\* ending its run leave next_run as it is.
C11_NextRunMovesOnlyAtRunStart ==
  [][ \A name \in RetailerNames :
        Live(name) =>
          IF \E w \in Threads : StartsRun(w) /\ wjob'[w] = name
            THEN job'[name].next_run = now + job[name].interval_hours
            ELSE job'[name].next_run = job[name].next_run ]_vars

\* C11 witness: a job started at time 1 is being executed with its next_run
\* at 1 plus its interval, while another job that was due at time 0 waits in
\* the queue with its next_run still at 0.
C11_Witness ==
  \E a, b \in RetailerNames :
    /\ a # b
    /\ \E w \in Threads : wpc[w] = "run" /\ wjob[w] = a
    /\ job[a].last_run = 1
    /\ job[a].next_run = 1 + job[a].interval_hours
    /\ InQueue(b) /\ job[b].next_run = 0 /\ now = 1

\* the status changes of the cycle idle -> queued -> running ->
\* (completed or failed) -> idle
CycleSteps ==
  { <<"idle", "queued">>, <<"queued", "running">>, <<"running", "completed">>,
    <<"running", "failed">>, <<"completed", "idle">>, <<"failed", "idle">> }

\* C12: a job in the queue has status queued, and the status of a job changes
\* only along the cycle idle -> queued -> running -> (completed or failed)
\* -> idle.
C12_StatusCycle ==
  /\ [](\A name \in RetailerNames : InQueue(name) => job[name].status = "queued")
  /\ [][ \A name \in RetailerNames :
           (Live(name) /\ job'[name].status # job[name].status) =>
             <<job[name].status, job'[name].status>> \in CycleSteps ]_vars

\* C13: a worker that starts a job execution starts the job at the head of
\* the queue, and no other execution is in progress at that moment.
C13_FifoOneAtATime ==
  [][ \A w \in Threads :
        StartsRun(w) =>
          /\ wjob'[w] = Head(job_queue)
          /\ job_queue' = Tail(job_queue)
          /\ Executing = {} ]_vars

(* ------------------------------------------------------------------ *)
(* Crawl engine: further properties                                    *)
(* ------------------------------------------------------------------ *)
\* a call of crawl_products returns in this step
Returns == Len(frames') < Len(frames)

\* C14: when a call of crawl_products returns, the outermost call and every
\* recursive call alike, the delay window is the window of the moment the
\* call was made, and the return of the outermost call leaves it so.
C14_DelayWindowRestored ==
  [][ Returns =>
        /\ base_delay = Top.entry
        /\ (Len(frames) = 1 => base_delay' = Top.entry) ]_vars

\* C14 witness: the outermost call has returned after three retry rounds, one
\* record was extracted on the way, and the delay window is the configured
\* profile again.
C14_Witness ==
  /\ cpc = "summary"
  /\ cstats.retry_count = 3
  /\ cstats.successful >= 1
  /\ base_delay = <<3, 7>>

\* the elements of a sequence
Range(q) == { q[i] : i \in 1..Len(q) }

\* a retry round starts in this step: crawl_products calls itself
StartsRetry == frames # <<>> /\ Len(frames') > Len(frames)

\* C15: the URLs of a retry round are exactly the URLs of the pass before
\* that yielded no record (as many as the pass added to the failed counter),
\* and no URL whose record was extracted is among the URLs of a later pass.
C15_RetrySetIsTheFailedUrls ==
  /\ [][ StartsRetry =>
           /\ frames'[Len(frames')].urls =
                Top.urls \ Range(frames'[Len(frames)].results)
           /\ Cardinality(frames'[Len(frames')].urls) = cstats'.failed - cstats.failed ]_vars
  /\ [](\A i, j \in 1..Len(frames) :
          i < j => /\ frames[j].urls \subseteq frames[i].urls
                   /\ frames[j].urls \cap Range(frames[i].results) = {})

\* C15 witness: a retry round is about to fetch the one URL that failed in a
\* pass of two URLs, the other of which yielded a record.
C15_Witness ==
  /\ Len(frames) = 2
  /\ frames[2].phase = "fetch"
  /\ Cardinality(frames[1].urls) = 2
  /\ Len(frames[1].results) = 1
  /\ Cardinality(frames[2].urls) = 1

\* the fetches made so far: the URLs of all passes, counted per pass
RECURSIVE FetchCount(_)
FetchCount(log) ==
  IF log = <<>> THEN 0
  ELSE Cardinality(log[Len(log)].urls) + FetchCount(SubSeq(log, 1, Len(log) - 1))

\* every fetch of every pass so far came back rate-limited
AllRateLimited == passLog # <<>> /\ cstats.rate_limited = FetchCount(passLog)

ClassSuccess(urls, res) == { u \in urls : res[u].success /\ res[u].extract = "data" }
ClassRateLimited(urls, res) ==
  { u \in urls : ~res[u].success /\ res[u].status_code \in {429, 503, 403, 520, 521, 522} }
ClassFailed(urls, res) == urls \ (ClassSuccess(urls, res) \cup ClassRateLimited(urls, res))

\* a pass went through its loop over the results in this step
CountsPass == Len(passLog') > Len(passLog) /\ cstats' # cstats

\* C17: whatever arun_many returns for the URLs of a pass, every result falls
\* in exactly one of the classes success, rate-limited and failed; the pass
\* adds the successes to the successful counter, the rate-limited results to
\* the rate_limited counter, and the rate-limited and failed results (and no
\* other) to the failed counter and to the retry set; a fetched document whose
\* extraction returns none or raises is in the class failed, not rate-limited.
\* Every pass the crawl makes changes the counters in this way.
C17_OutcomeClasses ==
  /\ []((cpc = "crawl" /\ Top.phase = "fetch") =>
          \A res \in [Urls -> FetchResults] :
            LET urls == Top.urls
                st == StatsAfterPass(cstats, urls, res)
            IN /\ st.successful = cstats.successful + Cardinality(ClassSuccess(urls, res))
               /\ st.rate_limited = cstats.rate_limited + Cardinality(ClassRateLimited(urls, res))
               /\ st.failed = cstats.failed + Cardinality(ClassRateLimited(urls, res))
                                            + Cardinality(ClassFailed(urls, res))
               /\ RetryUrls(urls, res) = ClassRateLimited(urls, res) \cup ClassFailed(urls, res)
               /\ \A u \in urls :
                    /\ ~res[u].success => (IsRateLimited(res[u]) <=> u \in ClassRateLimited(urls, res))
                    /\ (res[u].success /\ res[u].extract \in {"none", "raises"}) =>
                         /\ u \in ClassFailed(urls, res)
                         /\ ~IsRateLimited(res[u]))
  /\ [][ CountsPass =>
           \E res \in [Urls -> FetchResults] :
             /\ cstats'.successful = cstats.successful + Cardinality(ClassSuccess(Top.urls, res))
             /\ cstats'.rate_limited =
                  cstats.rate_limited + Cardinality(ClassRateLimited(Top.urls, res))
             /\ cstats'.failed = cstats.failed + Cardinality(ClassRateLimited(Top.urls, res))
                                               + Cardinality(ClassFailed(Top.urls, res))
             /\ StartsRetry =>
                  frames'[Len(frames')].urls =
                    ClassRateLimited(Top.urls, res) \cup ClassFailed(Top.urls, res) ]_vars

\* C17 witness: after a first pass of two URLs, one rate-limited and one with
\* a failure of another kind, the retry round is about to fetch both.
C17_Witness ==
  /\ cpc = "crawl" /\ Len(frames) = 2 /\ Top.phase = "fetch"
  /\ Len(passLog) = 1
  /\ cstats.failed = 2 /\ cstats.rate_limited = 1 /\ cstats.successful = 0
  /\ Cardinality(Top.urls) = 2

\* the records held by the active calls of crawl_products
RECURSIVE HeldRecords(_)
HeldRecords(fs) ==
  IF fs = <<>> THEN 0
  ELSE Len(fs[Len(fs)].results) + HeldRecords(SubSeq(fs, 1, Len(fs) - 1))

\* no element occurs twice in the sequence
NoDuplicates(q) == \A i, j \in 1..Len(q) : q[i] = q[j] => i = j

\* C18: every record extracted in a pass stays in the result: the active
\* calls hold as many records as were extracted so far, a call that returns
\* hands its records to its caller, which appends them to its own, and the
\* result of the outermost call consists of one record for each extraction of
\* the run, at most one per URL of the batch.
C18_ResultIsAllExtractedRecords ==
  /\ [](cpc = "crawl" => HeldRecords(frames) = cstats.successful)
  /\ [](\A i \in 1..Len(frames) :
          NoDuplicates(frames[i].results) /\ Range(frames[i].results) \subseteq frames[i].urls)
  /\ [][ Returns =>
           IF Len(frames) = 1
             THEN cResults' = Top.results
             ELSE frames'[Len(frames')].results =
                    frames[Len(frames) - 1].results \o Top.results ]_vars
  /\ [](cpc \in {"summary", "done"} =>
          /\ Len(cResults) = cstats.successful
          /\ NoDuplicates(cResults)
          /\ Range(cResults) \subseteq cUrls)

\* C18 witness: crawl_products has returned two records, one extracted in the
\* first pass and one in the single retry round.
C18_Witness ==
  /\ cpc = "summary"
  /\ Len(passLog) = 2 /\ cstats.retry_count = 1
  /\ cstats.failed = 1
  /\ Len(cResults) = 2

(* ------------------------------------------------------------------ *)
(* Product store: further properties                                   *)
(* ------------------------------------------------------------------ *)
\* the identities of fallback kind
Stamps == { Stamp(n) : n \in 0..MaxMs }

\* the positions of the batch whose record has no URL
WithoutUrl(batch) == { k \in 1..Len(batch) : batch[k].url = <<>> }

\* a later position of the batch, not among the positions skip, holds a
\* record of the same identity as position k
Overwritten(batch, k, skip) ==
  \E j \in 1..Len(batch) :
    /\ j > k /\ j \notin skip
    /\ ~NeedsStamp(batch[k]) /\ ~NeedsStamp(batch[j])
    /\ StableId(batch[j]) = StableId(batch[k])

\* the record at position k can be fetched by its identity: get_product_by_id
\* finds a product for it, and finds the record itself unless a later record
\* of the batch took the same identity
Retrievable(batch, k, skip) ==
  IF NeedsStamp(batch[k])
    THEN \E id \in Stamps : get_product_by_id(id) = <<batch[k]>>
    ELSE /\ get_product_by_id(StableId(batch[k])) # <<>>
         /\ ~Overwritten(batch, k, skip) =>
              get_product_by_id(StableId(batch[k])) = <<batch[k]>>

BulkStep == nOps' = nOps + 1 /\ lastOp'.op = "bulk"

\* C20: bulk_upsert_products counts every record that fails by itself (no
\* URL, or a statement of its own failing) as a failure, and when the batch is
\* committed every other record of it is in the table; when the storage fails
\* so that the batch cannot be committed, the table and the index are left
\* exactly as they were before the call.
C20_RecordFailuresAndRollback ==
  /\ [](lastOp.op = "bulk" =>
          /\ WithoutUrl(lastOp.batch) \subseteq lastOp.failed
          /\ lastOp.ret = << Len(lastOp.batch) - Cardinality(lastOp.failed),
                             Cardinality(lastOp.failed) >>
          /\ lastOp.committed =>
               \A k \in 1..Len(lastOp.batch) :
                 k \notin lastOp.failed => Retrievable(lastOp.batch, k, {}))
  /\ [][ (BulkStep /\ ~lastOp'.committed) => (rows' = rows /\ search' = search) ]_vars

\* C20 witness: a bulk upsert of two records on a store that held a row; the
\* second record failed at a statement, the batch was not committed, and the
\* first record, which the store did not hold before, is not in the table.
C20_Witness ==
  /\ lastOp.op = "bulk" /\ ~lastOp.committed
  /\ Len(lastOp.batch) = 2
  /\ lastOp.failed = {2}
  /\ lastOp.batch[2].url # <<>>
  /\ rows # {}
  /\ ~NeedsStamp(lastOp.batch[1])
  /\ get_product_by_id(StableId(lastOp.batch[1])) = <<>>

\* the positions of the batch whose record is in the table
Persisted(batch) == { k \in 1..Len(batch) : \E r \in rows : r.data = batch[k] }

\* C21: when a bulk write is rolled back as a whole, the counts it returns,
\* which CrawlJob.run attaches to the summary as database_success and
\* database_failure, tell the loss: database_success counts no record that is
\* not in the table, and database_failure counts every record that is not.
C21_CountsTellTheLoss ==
  (lastOp.op = "bulk" /\ ~lastOp.committed) =>
    /\ lastOp.ret[1] <= Cardinality(Persisted(lastOp.batch))
    /\ lastOp.ret[2] >= Len(lastOp.batch) - Cardinality(Persisted(lastOp.batch))

\* C22: a configuration error of one source, an unknown source name or a
\* crawler module or class that is missing, raises nothing to the caller of
\* the scheduler; where it ends a job execution that job is recorded failed,
\* and every other job and the scheduler's running state stay as they are.
C22_ConfigurationErrorStaysInJob ==
  [][ /\ raised' = raised
      /\ \A w \in Threads :
           (EndsRun(w) /\ ~HasCrawlerModule(wjob[w])) =>
             /\ job'[wjob[w]].status = "failed"
             /\ \A other \in RetailerNames \ {wjob[w]} : job'[other] = job[other]
             /\ schedRunning' = schedRunning ]_vars

\* C23: the test of a job's running flag and the act that follows it are made
\* under the scheduler's lock: while run_job_now is between its test of
\* job.running and its put, no other thread changes a running flag.
C23_CheckThenActUnderLock ==
  [][ apiPc = "put" =>
        \A name \in RetailerNames : job'[name].running = job[name].running ]_vars

\* the identity that the record alone determines: its id, else the last
\* segment of its URL
DerivedId(p) == IF p.id # <<>> THEN p.id ELSE LastSegment(p.url)

C25_CacheModeFollowsMarker ==
  [][ (passLog' # passLog /\ passLog' # <<>>) =>
        LET pass == passLog'[Len(passLog')] IN
          /\ pass.cache_mode = (IF marker THEN "ENABLED" ELSE "BYPASS")
          /\ \A i \in 1..Len(passLog) : passLog[i].cache_mode = pass.cache_mode
          /\ nRuns >= 2 => pass.cache_mode = "ENABLED" ]_vars

\* C26: a crawl run that has returned, whatever its URLs came to and also when
\* there was none, has written summary.json and last_run.json.
C26_SummaryAndMarkerWritten ==
  (cpc = "done" /\ nRuns >= 1) => (summary.written /\ marker)

(* ------------------------------------------------------------------ *)
(* Product store: find_products and the price round trip               *)
(* ------------------------------------------------------------------ *)
\* the index holds the word in the title, description, brand or category of
\* an entry of the identity
TextMatch(id, query) ==
  \E i \in 1..Len(search) :
    /\ search[i].id = id
    /\ query \in {search[i].title, search[i].description, search[i].brand, search[i].category}

\* the price of the row lies within the bounds that are given, and a row
\* without price lies within no bound
PriceWithin(r, min_price, max_price) ==
  /\ min_price # -1 => (r.price # -1 /\ r.price >= min_price)
  /\ max_price # -1 => (r.price # -1 /\ r.price <= max_price)

\* C27: every record that find returns for a query matches the query in the
\* index on title, description, brand or category, has a price within the
\* bounds given, both inclusive, and none if it has no price, and carries the
\* retailer, category and brand asked for.
C27_FindReturnsOnlyMatches ==
  (lastOp.op = "find" /\ lastOp.args.query # None) =>
    \A i \in 1..Len(lastOp.ret[1]) :
      \E r \in rows :
        /\ r.data = lastOp.ret[1][i]
        /\ TextMatch(r.id, lastOp.args.query)
        /\ PriceWithin(r, lastOp.args.min_price, lastOp.args.max_price)
        /\ lastOp.args.retailer # None => r.retailer = lastOp.args.retailer
        /\ lastOp.args.category # None => r.category = lastOp.args.category
        /\ lastOp.args.brand # None => r.brand = lastOp.args.brand

\* the rows that satisfy the filters of the call
Satisfying(f) == { r \in rows : Where(f, r) }

C29_EmptyMatchAndErrors ==
  lastOp.op = "find" =>
    /\ (/\ lastOp.args.query # None
        /\ \A i \in 1..Len(search) : ~Matches(search[i], lastOp.args.query)) =>
         lastOp.ret = <<<<>>, 0>>
    /\ ~lastOp.clean => lastOp.ret = <<<<>>, 0>>

\* C29 witness: a find without query met an internal error on a store with
\* rows that satisfy its filters.
C29_Witness ==
  /\ lastOp.op = "find" /\ ~lastOp.clean
  /\ lastOp.args.query = None
  /\ Cardinality(Satisfying(lastOp.args)) >= 2
  /\ lastOp.ret = <<<<>>, 0>>

\* the identity under which the upsert of the record p has just stored it
IdGiven(p) == IF NeedsStamp(p) THEN Stamp(ms - 1) ELSE DerivedId(p)

C31_StartedHasLiveWorker ==
  (schedRunning /\ nStarts > 0) => AliveWorkers # {}

\* C32: with no run_job_now call, an execution of a job that has run before
\* starts no earlier than one interval after the start of the execution
\* before it.
C32_ExecutionsOneIntervalApart ==
  [][ \A w \in Threads :
        StartsRun(w) =>
          \/ job[wjob'[w]].last_run = -1
          \/ now >= job[wjob'[w]].last_run + job[wjob'[w]].interval_hours ]_vars

\* C33: whatever start() and stop() calls are made, at most one thread is in
\* _worker_loop and at most one in _checker_loop.
C33_OneWorkerOneChecker ==
  Cardinality(AliveWorkers) <= 1 /\ nCheckers <= 1

\* C34: the entry that run_job_now puts on the queue is executed by the
\* worker: when the call queues a job on a started scheduler, a worker thread
\* is alive to take it; the call adds one entry for the job it looked up and
\* leaves the job's state as it is.
C34_RunNowEntryIsExecuted ==
  [][ (apiPc = "put" /\ apiPc' = "idle") =>
        /\ job_queue' = Append(job_queue, nowJob)
        /\ job' = job
        /\ schedRunning => AliveWorkers # {} ]_vars

\* C35: a job that remove_job has taken out of self.jobs is not queued by the
\* checker and no execution of it starts, also when an entry of it was on the
\* queue at the time of the removal.
C35_RemovedJobNeverRuns ==
  [][ /\ \A i \in 1..Len(job_queue') :
           (i > Len(job_queue) /\ job_queue'[i] # None /\ apiPc # "put") =>
             InJobs(job_queue'[i])
      /\ \A w \in Threads : StartsRun(w) => InJobs(wjob'[w]) ]_vars

(* ------------------------------------------------------------------ *)
(* Crawl engine: counters, run directory and delay window              *)
(* ------------------------------------------------------------------ *)
\* every fetch of the run returned its results to the loop over the results
EveryPassProcessed ==
  \A i \in 1..Len(passLog) : passLog[i].processed = Cardinality(passLog[i].urls)

\* C36: in the summary of a run that has returned, and in which no fetch
\* raised, urls_processed is the number of URLs of the batch and
\* successful + failed equals urls_processed.
C36_CountsAreCountsOfUrls ==
  (cpc = "done" /\ nRuns >= 1 /\ EveryPassProcessed) =>
    /\ summary.urls_processed = Cardinality(cUrls)
    /\ summary.successful + summary.failed = summary.urls_processed

\* the text of the URLs of the sitemap: the first two end in the same segment
UrlText(u) == IF u = 1 THEN UrlA1 ELSE IF u = 2 THEN UrlB1 ELSE UrlA2

\* _save_product_data: the file name of the record extracted from URL u, which
\* carries no id: "product_" and the last segment of the URL
save_product_data(u) == LastSegment(UrlText(u))

\* the product files in the run directory once crawl_products has returned
RunDirFiles == { save_product_data(cResults[i]) : i \in 1..Len(cResults) }

\* CrawlJob._load_crawled_products: one record per product file; the record
\* of a file is the one saved last under its name
load_crawled_products ==
  { CHOOSE i \in 1..Len(cResults) :
      /\ save_product_data(cResults[i]) = f
      /\ \A j \in 1..Len(cResults) : save_product_data(cResults[j]) = f => j <= i
    : f \in RunDirFiles }

\* C37: after a run the records loaded for the bulk upsert are the records the
\* run extracted, one for each extracted URL, so that their number, which is
\* database_success + database_failure, is the summary's products_found.
C37_LoadedRecordsAreExtractedRecords ==
  (cpc = "done" /\ nRuns >= 1) =>
    /\ { cResults[i] : i \in load_crawled_products } = Range(cResults)
    /\ Cardinality(load_crawled_products) = summary.products_found

\* C38: when retry round r is started, both bounds of the delay window are
\* multiplied by r + 1, r being 1, 2 or 3; the round is fetched under the new
\* window, which is wider in both bounds than the window before, and whose
\* minimum does not exceed its maximum.
C38_DelayWindowWidens ==
  [][ StartsRetry =>
        LET r == cstats'.retry_count IN
          /\ r \in 1..3
          /\ r = Len(frames)
          /\ base_delay' = << base_delay[1] * (r + 1), base_delay[2] * (r + 1) >>
          /\ frames'[Len(frames')].entry = base_delay'
          /\ base_delay'[1] > base_delay[1] /\ base_delay'[2] > base_delay[2]
          /\ base_delay'[1] <= base_delay'[2] ]_vars

\* C38 witness: retry round 3 is about to be fetched under the window of the
\* profile (2, 6) multiplied by 2, by 3 and by 4.
C38_Witness ==
  /\ Len(frames) = 4 /\ Top.phase = "fetch"
  /\ cstats.retry_count = 3
  /\ base_delay = <<48, 144>>
  /\ frames[1].entry = <<2, 6>>

\* the fetch results that the loops over the results have taken so far
RECURSIVE ProcessedCount(_)
ProcessedCount(log) ==
  IF log = <<>> THEN 0
  ELSE log[Len(log)].processed + ProcessedCount(SubSeq(log, 1, Len(log) - 1))

\* C40: at every point of a run successful + failed is the number of fetch
\* results processed so far over all passes, products_found equals
\* successful, rate_limited is at most failed, and the retry counter lies
\* between 0 and 3.
C40_CounterInvariant ==
  /\ cstats.successful + cstats.failed = ProcessedCount(passLog)
  /\ cstats.products_found = cstats.successful
  /\ cstats.rate_limited <= cstats.failed
  /\ cstats.retry_count \in 0..3

\* C40 witness: a run is in its third retry round having counted successes,
\* rate-limited results and other failures.
C40_Witness ==
  /\ cpc = "crawl" /\ Len(frames) = 4
  /\ cstats.retry_count = 3
  /\ cstats.successful >= 1
  /\ cstats.rate_limited >= 1
  /\ cstats.failed > cstats.rate_limited

(* ------------------------------------------------------------------ *)
(* Product store: the bulk upsert against the single upserts           *)
(* ------------------------------------------------------------------ *)
\* upsert_product called on each of the first k records of the batch, one
\* call after the other, the statements failing where faults says: a call
\* whose statements all go through is committed and returns True, any other
\* call leaves the table and the index as it found them and returns False
RECURSIVE UpsertEach(_, _, _)
UpsertEach(batch, faults, k) ==
  IF k = 0 THEN Txn
  ELSE LET before == UpsertEach(batch, faults, k - 1)
           after == UpsertSteps(before, batch[k], faults[k])
       IN IF after.ok
            THEN [after EXCEPT !.success = @ + 1]
            ELSE [before EXCEPT !.ms = after.ms, !.failure = @ + 1]

\* C39: a bulk upsert whose COMMIT goes through leaves the table and the
\* index as the calls of upsert_product on the records of the batch, in
\* order and meeting the same failures, would leave them, and its success
\* count is the number of those calls that return True.
C39_BulkIsUpsertOfEach ==
  [][ BulkStep =>
        \A plan \in FaultPlans(Len(lastOp'.batch)) :
          (plan.commit_ok /\ bulk_upsert_products(lastOp'.batch, plan.at, TRUE)) =>
            LET each == UpsertEach(lastOp'.batch, plan.at, Len(lastOp'.batch)) IN
              /\ rows' = each.rows
              /\ search' = each.search
              /\ lastOp'.ret[1] = each.success ]_vars

====
